---- MODULE Spec2Model ----
(***************************************************************************)
(* Model of muse-eeg: the MuseBLE connection session, the RingBuffer       *)
(* sample buffer, the notification codecs and the live analysis cycle      *)
(* (visualize.py), the offline analysis functions (analyze.py) and the     *)
(* connection scripts stream.stream and raw_connect.main.                  *)
(*                                                                         *)
(* Session: every await of MuseBLE._run, _connect_and_stream and           *)
(* _connect_phase1 is one action.  pc names the await the coroutine is     *)
(* suspended in (or, for "for_test" / "stream_test" / "run_while", the     *)
(* synchronous test of self._stop that follows the previous await).  A     *)
(* link operation of the BLE stack (connect, start_notify,                 *)
(* write_gatt_char, disconnect) either returns or raises; the device       *)
(* chooses.                                                                *)
(***************************************************************************)
EXTENDS Integers, Sequences, FiniteSets, TLC

VARIABLES
    pc,         \* position of the _run coroutine
    stopReq,    \* MuseBLE._stop
    stopIn,     \* kind of suspension point the session was in when stop() was called
    status,     \* MuseData.status
    connected,  \* MuseData.connected
    attempt,    \* loop variable of `for attempt in range(1, MAX_RETRIES + 1)`
    client,     \* `client` of _run: "None" or "client"
    csOpen,     \* the local client of _connect_and_stream has a link (connect returned, no disconnect called)
    p1Exc,      \* an exception is pending in the try block of _connect_phase1
    available,  \* `available` of _connect_and_stream
    pos,        \* index in SensorOrder of the next sensor characteristic to examine
    ops,        \* link operations and delays of the current attempt, in call order
    backoffs,   \* the waits taken in the current for loop, in order
    leaked,     \* clients dropped with a link and without a disconnect() call
    losses,     \* link losses detected so far
    buf,        \* RingBuffer._buf
    idx,        \* RingBuffer._idx
    rbLen,      \* RingBuffer._len
    hist,       \* every value passed to extend, in call order
    lastExt,    \* the values of the latest extend call
    wpc,        \* BLE thread: the statement of extend it executes next
    wvals,      \* BLE thread: `values` of the extend call in progress
    wsnap,      \* ordered contents before and after the extend call in progress
    rpc,        \* GUI thread: the step of get_ordered it executes next
    ri1,        \* GUI thread: self._idx as read for the slice _buf[_idx:]
    ri2,        \* GUI thread: self._idx as read for the slice _buf[:_idx]
    got,        \* GUI thread: the array get_ordered returned
    allowed,    \* ordered contents at the call boundaries of extend that the read in progress overlaps
    fn,         \* codec: the function applied to the input, or the kind of input still to be used
    data,       \* codec: the notification payload, a sequence of bytes
    cmdArg,     \* codec: the command string, a sequence of characters
    out,        \* codec: what the function returned
    battery,    \* MuseData.battery
    prevBattery, \* MuseData.battery before the latest call
    script,     \* pipeline: the frames the headband sends, in order
    fpos,       \* pipeline: the number of frames delivered so far
    eeg,        \* MuseData.eeg of each run: channel -> ring buffer
    spCounter,  \* MuseWindow._sp_update_counter of each run
    blinkCount, \* MuseWindow.blink_count of each run
    bandBars,   \* the heights last given to band_bars.setOpts, in each run
    asymOut,    \* the value last shown by asym_label, in each run
    asymHist,   \* MuseWindow.asym_history of each run
    cyc,        \* the latest analysis cycle of each run: valid TP9 samples found, frames delivered, band_bars before it, jointly valid frontal samples found, whether the blink step ran
    afn,        \* analysis: the function applied to the input, or the kind of input still to be used
    left_data,  \* analysis: the left (or only) sample array
    right_data, \* analysis: the right sample array
    mean_asym,  \* analysis: the asymmetry value to classify, in hundredths
    aout,       \* analysis: what the function returned
    prog,       \* script: "stream" (stream.stream) or "raw_connect" (raw_connect.main)
    spc,        \* script: the await the coroutine is suspended in
    sops,       \* script: link operations and delays so far, in call order
    savail,     \* script: `available`, the characteristics found after the second connect
    spos,       \* script: index in the script's sensor order of the next characteristic to examine
    held,       \* the array a caller of get_ordered holds: the buffer's own array or a copy
    heldSnap    \* what get_ordered returned, as it was at the return

sessVars == <<pc, stopReq, stopIn, status, connected, attempt, client, csOpen,
              p1Exc, available, pos, ops, backoffs, leaked, losses>>
rbVars == <<buf, idx, rbLen, hist, lastExt>>
vars == <<pc, stopReq, stopIn, status, connected, attempt, client, csOpen,
          p1Exc, available, pos, ops, backoffs, leaked, losses,
          buf, idx, rbLen, hist, lastExt,
          wpc, wvals, wsnap, rpc, ri1, ri2, got, allowed,
          fn, data, cmdArg, out, battery, prevBattery,
          script, fpos, eeg, spCounter, blinkCount, bandBars, asymOut,
          asymHist, cyc,
          afn, left_data, right_data, mean_asym, aout,
          prog, spc, sops, savail, spos, held, heldSnap>>
anaVars == <<afn, left_data, right_data, mean_asym, aout>>
scriptVars == <<prog, spc, sops, savail, spos>>
viewVars == <<held, heldSnap>>
ccVars == <<wpc, wvals, wsnap, rpc, ri1, ri2, got, allowed>>
codecVars == <<fn, data, cmdArg, out, battery, prevBattery>>
pipeVars == <<script, fpos, eeg, spCounter, blinkCount, bandBars, asymOut,
              asymHist, cyc>>

\* what the actions of one part of the program leave alone
notSessVars == <<rbVars, ccVars, codecVars, pipeVars, anaVars, scriptVars, viewVars>>
notRbVars == <<sessVars, ccVars, codecVars, pipeVars, anaVars, scriptVars, viewVars>>
notCcVars == <<sessVars, codecVars, pipeVars, anaVars, scriptVars, viewVars>>
notCodecVars == <<sessVars, rbVars, ccVars, pipeVars, anaVars, scriptVars, viewVars>>
notPipeVars == <<sessVars, rbVars, ccVars, codecVars, anaVars, scriptVars, viewVars>>
notAnaVars == <<sessVars, rbVars, ccVars, codecVars, pipeVars, scriptVars, viewVars>>
notScriptVars == <<sessVars, rbVars, ccVars, codecVars, pipeVars, anaVars, viewVars>>
notViewVars == <<sessVars, rbVars, ccVars, codecVars, pipeVars, anaVars, scriptVars>>

\* ------------------------------------------------------------------ bounds
\* link losses the device may cause in one run
MaxLosses == 1

\* ------------------------------------------------------- program constants
\* mutant: one retry too many
MAX_RETRIES_mut == 5 + 1

MAX_RETRIES == 5

EegSensors == {"TP9", "AF7", "AF8", "TP10"}

\* the order in which _connect_and_stream examines the sensor characteristics
SensorOrder == <<"TP9", "AF7", "AF8", "TP10", "ACCEL", "GYRO", "TELEM">>

Sensors == {SensorOrder[i] : i \in DOMAIN SensorOrder}

\* characteristic tables the device may expose on a connect: every sensor
\* characteristic is present in some and absent from others
AvailChoices ==
    { {},
      {"TELEM"},
      {"ACCEL", "GYRO", "TELEM"},
      {"AF7"},
      {"TP10"},
      {"TP9", "TP10", "TELEM"},
      {"TP9", "AF7", "AF8", "TP10"},
      {"AF7", "AF8", "TP10", "ACCEL", "GYRO"},
      {"TP9", "AF7", "AF8", "TP10", "ACCEL", "GYRO"},
      Sensors }

Min(a, b) == IF a <= b THEN a ELSE b

\* ------------------------------------------------------------- operations log
Op(name, arg, ok) == [op |-> name, arg |-> arg, ms |-> 0, ok |-> ok]
Sleep(ms) == [op |-> "sleep", arg |-> "", ms |-> ms, ok |-> TRUE]

\* ------------------------------------------------------------------ helpers
\* mutant: the factor 2 is lost
BackoffWait_mut(a) == Min(a, 10)

\* wait = min(attempt * 2, 10)
BackoffWait(a) == Min(a * 2, 10)

\* any(uuid in available for uuid in EEG_UUIDS)
EegAvailable(av) == \E s \in EegSensors : s \in av

\* mutant: the membership test is lost, every characteristic is subscribed
NextAvail_mut(p, av) == p

\* the first position >= p of SensorOrder whose characteristic is in av,
\* Len(SensorOrder) + 1 when there is none
NextAvail(p, av) ==
    IF \E i \in p..Len(SensorOrder) : SensorOrder[i] \in av
    THEN CHOOSE i \in p..Len(SensorOrder) :
            /\ SensorOrder[i] \in av
            /\ \A j \in p..(i - 1) : SensorOrder[j] \notin av
    ELSE Len(SensorOrder) + 1

\* except Exception as e: status = "Connect failed"; wait = min(...); sleep(wait)
\* reached by an exception that leaves _connect_and_stream; its local client
\* is dropped, with its link when `open`
AttemptFailed(open) ==
    /\ status' = "ConnectFailed"
    /\ backoffs' = Append(backoffs, BackoffWait(attempt))
    /\ leaked' = leaked + (IF open THEN 1 ELSE 0)
    /\ csOpen' = FALSE
    /\ pc' = "backoff"

\* ----------------------------------------------------------- initial states
SessInit ==
    /\ pc = "start"
    /\ stopReq = FALSE
    /\ stopIn = "none"
    /\ status = "Disconnected"
    /\ connected = FALSE
    /\ attempt = 0
    /\ client = "None"
    /\ csOpen = FALSE
    /\ p1Exc = FALSE
    /\ available = {}
    /\ pos = 1
    /\ ops = <<>>
    /\ backoffs = <<>>
    /\ leaked = 0
    /\ losses = 0

\* ------------------------------------------------------- session: actions
\* pcs at which the coroutine is suspended in asyncio.sleep
DelayPcs == {"p1_sleep1", "p1_sleep2", "p1_settle", "cs_sleep", "backoff",
             "exc_sleep", "stream_sleep", "fin_sleep"}

\* pcs that are a synchronous test, not a suspension point: a stop() of the
\* other thread lands in the await before or after it
InstantPcs == {"run_while", "for_test", "stream_test"}

StopKind ==
    IF pc = "start" THEN "start"
    ELSE IF pc = "done" THEN "done"
    ELSE IF pc \in DelayPcs THEN "delay"
    ELSE "op"

\* MuseBLE.stop, called from the GUI thread
Stop ==
    /\ ~stopReq
    /\ pc \notin InstantPcs
    /\ stopReq' = TRUE
    /\ stopIn' = StopKind
    /\ UNCHANGED <<pc, status, connected, attempt, client, csOpen, p1Exc,
                   available, pos, ops, backoffs, leaked, losses>>
    /\ UNCHANGED notSessVars

\* run_in_thread: the thread starts and its event loop runs _run()
RunStart ==
    /\ pc = "start"
    /\ pc' = "run_while"
    /\ UNCHANGED <<stopReq, stopIn, status, connected, attempt, client, csOpen,
                   p1Exc, available, pos, ops, backoffs, leaked, losses>>
    /\ UNCHANGED notSessVars

\* `while not self._stop:` of _run, then `client = None` and the for loop's
\* first value, or the final `self.data.status = "Disconnected"`
RunLoopTest ==
    /\ pc = "run_while"
    /\ IF stopReq
       THEN /\ status' = "Disconnected"
            /\ pc' = "done"
            /\ UNCHANGED <<client, attempt, backoffs>>
       ELSE /\ client' = "None"
            /\ attempt' = 1
            /\ backoffs' = <<>>
            /\ pc' = "for_test"
            /\ UNCHANGED status
    /\ UNCHANGED <<stopReq, stopIn, connected, csOpen, p1Exc, available, pos,
                   ops, leaked, losses>>
    /\ UNCHANGED notSessVars

\* one turn of `for attempt in range(1, MAX_RETRIES + 1)`: the else branch
\* when the range is exhausted, `if self._stop: return`, or the status line
\* and the call of _connect_and_stream.  Both returns run the finally block
\* with client None: connected = False.
ForTest ==
    /\ pc = "for_test"
    /\ IF attempt > MAX_RETRIES
       THEN /\ status' = "CouldNotConnect"
            /\ connected' = FALSE
            /\ pc' = "done"
            /\ UNCHANGED ops
       ELSE IF stopReq
       THEN /\ connected' = FALSE
            /\ pc' = "done"
            /\ UNCHANGED <<status, ops>>
       ELSE /\ status' = "Connecting"
            /\ ops' = <<>>
            /\ pc' = "cs_connect1"
            /\ UNCHANGED connected
    /\ UNCHANGED <<stopReq, stopIn, attempt, client, csOpen, p1Exc, available,
                   pos, backoffs, leaked, losses>>
    /\ UNCHANGED notSessVars

\* _connect_and_stream: client.connect(), the characteristic table, and the
\* choice between streaming at once and waking the GATT table
CsConnect1 ==
    /\ pc = "cs_connect1"
    /\ \E ok \in BOOLEAN :
        /\ ops' = Append(ops, Op("connect", "", ok))
        /\ IF ~ok
           THEN /\ AttemptFailed(FALSE)
                /\ UNCHANGED <<available, pos>>
           ELSE \E av \in AvailChoices :
                /\ available' = av
                /\ csOpen' = TRUE
                /\ pos' = 1
                /\ IF EegAvailable(av)
                   THEN pc' = "cs_notify_ctrl" /\ UNCHANGED status
                   ELSE pc' = "cs_disconnect1" /\ status' = "Waking"
                /\ UNCHANGED <<backoffs, leaked>>
    /\ UNCHANGED <<stopReq, stopIn, connected, attempt, client, p1Exc, losses>>
    /\ UNCHANGED notSessVars

\* `await client.disconnect()` before phase 1 (not guarded by a try)
CsDisconnect1 ==
    /\ pc = "cs_disconnect1"
    /\ \E ok \in BOOLEAN :
        /\ ops' = Append(ops, Op("disconnect", "", ok))
        /\ IF ok
           THEN /\ csOpen' = FALSE
                /\ pc' = "p1_connect"
                /\ UNCHANGED <<status, backoffs, leaked>>
           ELSE AttemptFailed(FALSE)
    /\ UNCHANGED <<stopReq, stopIn, connected, attempt, client, p1Exc,
                   available, pos, losses>>
    /\ UNCHANGED notSessVars

\* an exception in the try block of _connect_phase1 goes to its finally block
P1Step(name, arg, okPc) ==
    \E ok \in BOOLEAN :
        /\ ops' = Append(ops, Op(name, arg, ok))
        /\ p1Exc' = ~ok
        /\ pc' = IF ok THEN okPc ELSE "p1_disconnect"
        /\ UNCHANGED <<stopReq, stopIn, status, connected, attempt, client,
                       csOpen, available, pos, backoffs, leaked, losses>>
        /\ UNCHANGED notSessVars

\* a delay returns
Delay(ms, nextPc) ==
    /\ ops' = Append(ops, Sleep(ms))
    /\ pc' = nextPc
    /\ UNCHANGED <<stopReq, stopIn, status, connected, attempt, client,
                   csOpen, p1Exc, available, pos, backoffs, leaked, losses>>
    /\ UNCHANGED notSessVars

P1Connect == pc = "p1_connect" /\ P1Step("connect", "", "p1_notify")

P1Notify == pc = "p1_notify" /\ P1Step("start_notify", "CONTROL", "p1_sleep1")

P1Sleep1 == pc = "p1_sleep1" /\ Delay(100, "p1_write_h")

\* mutant: the stop command is written in place of halt
P1WriteH_mut == pc = "p1_write_h" /\ P1Step("write", "s", "p1_sleep2")

P1WriteH == pc = "p1_write_h" /\ P1Step("write", "h", "p1_sleep2")

P1Sleep2 == pc = "p1_sleep2" /\ Delay(200, "p1_disconnect")

\* finally: try: await client.disconnect() except: pass; then the pending
\* exception leaves _connect_phase1 and _connect_and_stream
P1Disconnect ==
    /\ pc = "p1_disconnect"
    /\ \E ok \in BOOLEAN :
        /\ ops' = Append(ops, Op("disconnect", "", ok))
        /\ p1Exc' = FALSE
        /\ IF p1Exc
           THEN AttemptFailed(FALSE)
           ELSE /\ pc' = "p1_settle"
                /\ UNCHANGED <<status, backoffs, leaked, csOpen>>
    /\ UNCHANGED <<stopReq, stopIn, connected, attempt, client, available,
                   pos, losses>>
    /\ UNCHANGED notSessVars

P1Settle == pc = "p1_settle" /\ Delay(1000, "cs_connect2")

\* the second BleakClient of _connect_and_stream
CsConnect2 ==
    /\ pc = "cs_connect2"
    /\ \E ok \in BOOLEAN :
        /\ ops' = Append(ops, Op("connect", "", ok))
        /\ IF ~ok
           THEN /\ AttemptFailed(FALSE)
                /\ UNCHANGED <<available, pos>>
           ELSE \E av \in AvailChoices :
                /\ available' = av
                /\ csOpen' = TRUE
                /\ pos' = 1
                /\ pc' = "cs_notify_ctrl"
                /\ UNCHANGED <<status, backoffs, leaked>>
    /\ UNCHANGED <<stopReq, stopIn, connected, attempt, client, p1Exc, losses>>
    /\ UNCHANGED notSessVars

\* a link operation of _connect_and_stream after its connect: an exception
\* leaves the function with the client connected
CsStep(name, arg, okPc, okPos) ==
    \E ok \in BOOLEAN :
        /\ ops' = Append(ops, Op(name, arg, ok))
        /\ IF ok
           THEN /\ pc' = okPc
                /\ pos' = okPos
                /\ UNCHANGED <<status, backoffs, leaked, csOpen>>
           ELSE /\ AttemptFailed(csOpen)
                /\ UNCHANGED pos
        /\ UNCHANGED <<stopReq, stopIn, connected, attempt, client, p1Exc,
                       available, losses>>
        /\ UNCHANGED notSessVars

CsNotifyCtrl ==
    /\ pc = "cs_notify_ctrl"
    /\ CsStep("start_notify", "CONTROL", "cs_sensors", 1)

\* `if uuid in available: await client.start_notify(uuid, ...)`, for the EEG
\* characteristics, then ACCEL, GYRO, TELEM
CsNotifySensor ==
    /\ pc = "cs_sensors"
    /\ NextAvail(pos, available) <= Len(SensorOrder)
    /\ LET i == NextAvail(pos, available)
       IN CsStep("start_notify", SensorOrder[i], "cs_sensors", i + 1)

CsWriteP21 ==
    /\ pc = "cs_sensors"
    /\ NextAvail(pos, available) > Len(SensorOrder)
    /\ CsStep("write", "p21", "cs_sleep", pos)

CsSleep == pc = "cs_sleep" /\ Delay(200, "cs_write_d")

\* cmd("d"), `return client`, `break`, connected = True, status = "Streaming"
CsWriteD ==
    /\ pc = "cs_write_d"
    /\ \E ok \in BOOLEAN :
        /\ ops' = Append(ops, Op("write", "d", ok))
        /\ IF ok
           THEN /\ client' = "client"
                /\ csOpen' = FALSE
                /\ connected' = TRUE
                /\ status' = "Streaming"
                /\ pc' = "stream_test"
                /\ UNCHANGED <<backoffs, leaked>>
           ELSE /\ AttemptFailed(csOpen)
                /\ UNCHANGED <<client, connected>>
    /\ UNCHANGED <<stopReq, stopIn, attempt, p1Exc, available, pos, losses>>
    /\ UNCHANGED notSessVars

\* the wait after a failed attempt returns; the for loop takes its next value
Backoff ==
    /\ pc = "backoff"
    /\ attempt' = attempt + 1
    /\ pc' = "for_test"
    /\ UNCHANGED <<stopReq, stopIn, status, connected, client, csOpen, p1Exc,
                   available, pos, ops, backoffs, leaked, losses>>
    /\ UNCHANGED notSessVars

\* `while not self._stop:` of the streaming loop, and client.is_connected;
\* a ConnectionError goes to the outer except block
\* mutant: the streaming loop does not test self._stop
StreamTest_mut ==
    /\ pc = "stream_test"
    /\ \/ /\ pc' = "stream_sleep"
          /\ UNCHANGED <<connected, status, losses>>
       \/ /\ losses < MaxLosses
          /\ losses' = losses + 1
          /\ connected' = FALSE
          /\ status' = "Reconnecting"
          /\ pc' = "exc_disconnect"
    /\ UNCHANGED <<stopReq, stopIn, attempt, client, csOpen, p1Exc, available,
                   pos, ops, backoffs, leaked>>
    /\ UNCHANGED notSessVars

StreamTest ==
    /\ pc = "stream_test"
    /\ IF stopReq
       THEN /\ pc' = "fin_halt"
            /\ UNCHANGED <<connected, status, losses>>
       ELSE \/ /\ pc' = "stream_sleep"
               /\ UNCHANGED <<connected, status, losses>>
            \/ /\ losses < MaxLosses
               /\ losses' = losses + 1
               /\ connected' = FALSE
               /\ status' = "Reconnecting"
               /\ pc' = "exc_disconnect"
    /\ UNCHANGED <<stopReq, stopIn, attempt, client, csOpen, p1Exc, available,
                   pos, ops, backoffs, leaked>>
    /\ UNCHANGED notSessVars

StreamSleep ==
    /\ pc = "stream_sleep"
    /\ pc' = "stream_test"
    /\ UNCHANGED <<stopReq, stopIn, status, connected, attempt, client, csOpen,
                   p1Exc, available, pos, ops, backoffs, leaked, losses>>
    /\ UNCHANGED notSessVars

\* except block: try: await client.disconnect() except: pass; client = None
ExcDisconnect ==
    /\ pc = "exc_disconnect"
    /\ \E ok \in BOOLEAN : ops' = Append(ops, Op("disconnect", "", ok))
    /\ client' = "None"
    /\ pc' = "exc_sleep"
    /\ UNCHANGED <<stopReq, stopIn, status, connected, attempt, csOpen, p1Exc,
                   available, pos, backoffs, leaked, losses>>
    /\ UNCHANGED notSessVars

\* asyncio.sleep(3) returns; `continue` runs the finally block with client None
ExcSleep ==
    /\ pc = "exc_sleep"
    /\ ops' = Append(ops, Sleep(3000))
    /\ connected' = FALSE
    /\ pc' = "run_while"
    /\ UNCHANGED <<stopReq, stopIn, status, attempt, client, csOpen, p1Exc,
                   available, pos, backoffs, leaked, losses>>
    /\ UNCHANGED notSessVars

\* mutant: the halt write is not guarded, its exception leaves _run
FinHalt_mut ==
    /\ pc = "fin_halt"
    /\ \E ok \in BOOLEAN :
        /\ ops' = Append(ops, Op("write", "h", ok))
        /\ pc' = IF ok THEN "fin_sleep" ELSE "done"
    /\ UNCHANGED <<stopReq, stopIn, status, connected, attempt, client, csOpen,
                   p1Exc, available, pos, backoffs, leaked, losses>>
    /\ UNCHANGED notSessVars

\* finally block with a client: the halt write, whose exception is swallowed
FinHalt ==
    /\ pc = "fin_halt"
    /\ \E ok \in BOOLEAN :
        /\ ops' = Append(ops, Op("write", "h", ok))
        /\ pc' = IF ok THEN "fin_sleep" ELSE "fin_disconnect"
    /\ UNCHANGED <<stopReq, stopIn, status, connected, attempt, client, csOpen,
                   p1Exc, available, pos, backoffs, leaked, losses>>
    /\ UNCHANGED notSessVars

FinSleep == pc = "fin_sleep" /\ Delay(200, "fin_disconnect")

\* try: await client.disconnect() except: pass; connected = False
FinDisconnect ==
    /\ pc = "fin_disconnect"
    /\ \E ok \in BOOLEAN : ops' = Append(ops, Op("disconnect", "", ok))
    /\ connected' = FALSE
    /\ pc' = "run_while"
    /\ UNCHANGED <<stopReq, stopIn, status, attempt, client, csOpen, p1Exc,
                   available, pos, backoffs, leaked, losses>>
    /\ UNCHANGED notSessVars

Next ==
    \/ Stop \/ RunStart \/ RunLoopTest \/ ForTest
    \/ CsConnect1 \/ CsDisconnect1
    \/ P1Connect \/ P1Notify \/ P1Sleep1 \/ P1WriteH \/ P1Sleep2
    \/ P1Disconnect \/ P1Settle
    \/ CsConnect2 \/ CsNotifyCtrl \/ CsNotifySensor \/ CsWriteP21 \/ CsSleep
    \/ CsWriteD \/ Backoff
    \/ StreamTest \/ StreamSleep \/ ExcDisconnect \/ ExcSleep
    \/ FinHalt \/ FinSleep \/ FinDisconnect

\* ------------------------------------------------------------- RingBuffer
\* np.nan, the content of a slot never written
NaN == -1

\* values[a:b] of Python (0-based, b excluded) on a TLA+ sequence
Slice(s, a, b) == SubSeq(s, a + 1, b)

\* buf[a:a+Len(vs)] = vs
Store(b, a, vs) ==
    [i \in 1..Len(b) |-> IF i > a /\ i <= a + Len(vs) THEN vs[i - a] ELSE b[i]]

\* mutant: the wrapped part is taken from the head of values
Extend_mut(b, i, len, values) ==
    LET n == Len(values) IN
    IF n = 0 THEN [buf |-> b, idx |-> i]
    ELSE IF n >= len
    THEN [buf |-> Store(b, 0, Slice(values, n - len, n)), idx |-> 0]
    ELSE LET end == i + n IN
         IF end <= len
         THEN [buf |-> Store(b, i, values), idx |-> end % len]
         ELSE LET first == len - i IN
              [buf |-> Store(Store(b, i, Slice(values, 0, first)),
                             0, Slice(values, 0, n - first)),
               idx |-> end % len]

\* mutant: an over-long extend keeps the head of values, not the tail
Extend_head(b, i, len, values) ==
    LET n == Len(values) IN
    IF n = 0 THEN [buf |-> b, idx |-> i]
    ELSE IF n >= len
    THEN [buf |-> Store(b, 0, Slice(values, 0, len)), idx |-> 0]
    ELSE LET end == i + n IN
         IF end <= len
         THEN [buf |-> Store(b, i, values), idx |-> end % len]
         ELSE LET first == len - i IN
              [buf |-> Store(Store(b, i, Slice(values, 0, first)),
                             0, Slice(values, first, n)),
               idx |-> end % len]

\* RingBuffer.extend: the buffer and the cursor after extend(values)
Extend(b, i, len, values) ==
    LET n == Len(values) IN
    IF n = 0 THEN [buf |-> b, idx |-> i]
    ELSE IF n >= len
    THEN [buf |-> Store(b, 0, Slice(values, n - len, n)), idx |-> 0]
    ELSE LET end == i + n IN
         IF end <= len
         THEN [buf |-> Store(b, i, values), idx |-> end % len]
         ELSE LET first == len - i IN
              [buf |-> Store(Store(b, i, Slice(values, 0, first)),
                             0, Slice(values, first, n)),
               idx |-> end % len]

\* RingBuffer.get_ordered
GetOrdered(b, i) ==
    IF i = 0 THEN b ELSE Slice(b, i, Len(b)) \o Slice(b, 0, i)

\* bounds of the buffer model
RBCap == 3
MaxVal == 2
MaxExt == 4
MaxHist == 6

\* RingBuffer.__init__(capacity)
RBInit ==
    /\ rbLen \in 1..RBCap
    /\ buf = [i \in 1..rbLen |-> NaN]
    /\ idx = 0
    /\ hist = <<>>
    /\ lastExt = <<>>

\* one call of extend, from a notification handler
RBExtend ==
    \E n \in 0..MaxExt :
        \E values \in [1..n -> 1..MaxVal] :
            /\ Len(hist) + n <= MaxHist
            /\ LET r == Extend(buf, idx, rbLen, values) IN
                /\ buf' = r.buf
                /\ idx' = r.idx
            /\ hist' = hist \o values
            /\ lastExt' = values
            /\ UNCHANGED rbLen
            /\ UNCHANGED notRbVars

\* no extend and no get_ordered call is in progress
CCInit ==
    /\ wpc = "w_idle" /\ wvals = <<>> /\ wsnap = <<>>
    /\ rpc = "r_idle" /\ ri1 = 0 /\ ri2 = 0 /\ got = <<>> /\ allowed = {}

\* a rational number n / d
Ratio(n, d) == [num |-> n, den |-> d]

\* no notification was handled; MuseData.battery = 0
CodecIdle ==
    /\ fn = "none" /\ data = <<>> /\ cmdArg = <<>> /\ out = <<>>
    /\ battery = Ratio(0, 1) /\ prevBattery = Ratio(0, 1)

\* ----------------------------------------------- live analysis: state
\* The sample counts of the analysis are scaled: Sec samples stand for one
\* second (EEG_RATE = 256 in the program), so 256 reads Sec, 512 reads
\* 2 * Sec and EEG_BUF_LEN = EEG_RATE * EEG_WINDOW reads Sec * EEG_WINDOW.
Sec == 3
EEG_WINDOW == 5
EEG_BUF_LEN == Sec * EEG_WINDOW

\* the pipeline is run twice on the same frames
Runs == {1, 2}

\* the band heights welch gives for a segment: a function of the segment and
\* of nperseg, not computed
Welch(seg, nperseg) == [seg |-> seg, nperseg |-> nperseg]

\* band_bars and asym_label before any result
NoBand == Welch(<<>>, 0)
NoAsym == <<NoBand, NoBand>>

\* MuseData.__init__ and MuseWindow.__init__ of each run
PipeInit ==
    /\ fpos = 0
    /\ eeg = [r \in Runs |-> [ch \in EegSensors |->
                [buf |-> [i \in 1..EEG_BUF_LEN |-> NaN], idx |-> 0]]]
    /\ spCounter = [r \in Runs |-> 0]
    /\ blinkCount = [r \in Runs |-> 0]
    /\ bandBars = [r \in Runs |-> NoBand]
    /\ asymOut = [r \in Runs |-> NoAsym]
    /\ asymHist = [r \in Runs |-> [buf |-> [i \in 1..30 |-> NaN], idx |-> 0]]
    /\ cyc = [r \in Runs |-> [n |-> 0, at |-> 0, before |-> NoBand,
                            nf |-> 0, ranBlink |-> FALSE]]

\* no frame will arrive
PipeIdle == PipeInit /\ script = <<>>

\* no analysis function is called
AnaIdle ==
    /\ afn = "idle"
    /\ left_data = <<>>
    /\ right_data = <<>>
    /\ mean_asym = 0
    /\ aout = <<>>

\* neither stream.stream nor raw_connect.main runs
ScriptIdle ==
    /\ prog = "none"
    /\ spc = "done"
    /\ sops = <<>>
    /\ savail = {}
    /\ spos = 1

\* no caller holds a result of get_ordered
ViewIdle ==
    /\ held = [alias |-> FALSE, array |-> <<>>]
    /\ heldSnap = <<>>

\* the parts of the program a specification does not run
RestIdle == AnaIdle /\ ScriptIdle /\ ViewIdle

\* MuseData.__init__ and MuseBLE.__init__
Init ==
    SessInit /\ RBInit /\ rbLen = RBCap /\ CCInit /\ CodecIdle /\ PipeIdle /\ RestIdle

Spec == Init /\ [][Next]_vars

\* the steps of the _run coroutine: every step of Next but the stop() call
\* of the GUI thread
RunStep ==
    \/ RunStart \/ RunLoopTest \/ ForTest
    \/ CsConnect1 \/ CsDisconnect1
    \/ P1Connect \/ P1Notify \/ P1Sleep1 \/ P1WriteH \/ P1Sleep2
    \/ P1Disconnect \/ P1Settle
    \/ CsConnect2 \/ CsNotifyCtrl \/ CsNotifySensor \/ CsWriteP21 \/ CsSleep
    \/ CsWriteD \/ Backoff
    \/ StreamTest \/ StreamSleep \/ ExcDisconnect \/ ExcSleep
    \/ FinHalt \/ FinSleep \/ FinDisconnect

\* the event loop runs the coroutine as long as it can step: every awaited
\* link operation and every delay eventually returns or raises
SpecLive == Init /\ [][Next]_vars /\ WF_vars(RunStep)

InitRB == SessInit /\ RBInit /\ CCInit /\ CodecIdle /\ PipeIdle /\ RestIdle

NextRB == RBExtend

SpecRB == InitRB /\ [][NextRB]_vars

\* one call of get_ordered by a caller that keeps the result: at cursor 0 the
\* result is self._buf itself, otherwise a new array made by np.concatenate
RBGet ==
    /\ held' = IF idx = 0
               THEN [alias |-> TRUE, array |-> <<>>]
               ELSE [alias |-> FALSE, array |-> GetOrdered(buf, idx)]
    /\ heldSnap' = GetOrdered(buf, idx)
    /\ UNCHANGED notViewVars

\* what the caller reads in the array it holds
Seen == IF held.alias THEN buf ELSE held.array

InitView ==
    /\ SessInit /\ RBInit /\ CCInit /\ CodecIdle /\ PipeIdle
    /\ AnaIdle /\ ScriptIdle /\ ViewIdle

NextView == RBExtend \/ RBGet

SpecView == InitView /\ [][NextView]_vars

\* ------------------------------------- RingBuffer under two threads
\* The notification handler runs extend on the BLE thread (run_in_thread);
\* the QTimer callback runs get_ordered on the GUI thread.  There is no lock:
\* the threads interleave between the statements of extend and between the
\* attribute reads of get_ordered.

\* extend is called: n = len(values); the branch is chosen
WCall ==
    /\ wpc = "w_idle"
    /\ \E n \in 0..MaxExt :
        \E values \in [1..n -> 1..MaxVal] :
            /\ Len(hist) + n <= MaxHist
            /\ wvals' = values
            /\ hist' = hist \o values
            /\ lastExt' = values
            /\ LET r == Extend(buf, idx, rbLen, values)
                   after == GetOrdered(r.buf, r.idx)
               IN /\ wsnap' = <<GetOrdered(buf, idx), after>>
                  /\ allowed' = IF rpc = "r_idle" THEN allowed
                                ELSE allowed \cup {after}
            /\ wpc' = IF n = 0 THEN "w_idle"
                      ELSE IF n >= rbLen THEN "w_all"
                      ELSE IF idx + n <= rbLen THEN "w_store"
                      ELSE "w_wrap1"
    /\ UNCHANGED <<buf, idx, rbLen, rpc, ri1, ri2, got>>
    /\ UNCHANGED notCcVars

\* self._buf[:] = values[-self._len:]
WAll ==
    /\ wpc = "w_all"
    /\ buf' = Store(buf, 0, Slice(wvals, Len(wvals) - rbLen, Len(wvals)))
    /\ wpc' = "w_zero"
    /\ UNCHANGED <<idx, rbLen, hist, lastExt, wvals, wsnap, rpc, ri1, ri2,
                   got, allowed>>
    /\ UNCHANGED notCcVars

\* self._idx = 0
WZero ==
    /\ wpc = "w_zero"
    /\ idx' = 0
    /\ wpc' = "w_idle"
    /\ UNCHANGED <<buf, rbLen, hist, lastExt, wvals, wsnap, rpc, ri1, ri2,
                   got, allowed>>
    /\ UNCHANGED notCcVars

\* self._buf[self._idx:end] = values
WStore ==
    /\ wpc = "w_store"
    /\ buf' = Store(buf, idx, wvals)
    /\ wpc' = "w_idx"
    /\ UNCHANGED <<idx, rbLen, hist, lastExt, wvals, wsnap, rpc, ri1, ri2,
                   got, allowed>>
    /\ UNCHANGED notCcVars

\* self._buf[self._idx:] = values[:first]
WWrap1 ==
    /\ wpc = "w_wrap1"
    /\ buf' = Store(buf, idx, Slice(wvals, 0, rbLen - idx))
    /\ wpc' = "w_wrap2"
    /\ UNCHANGED <<idx, rbLen, hist, lastExt, wvals, wsnap, rpc, ri1, ri2,
                   got, allowed>>
    /\ UNCHANGED notCcVars

\* self._buf[:n - first] = values[first:]
WWrap2 ==
    /\ wpc = "w_wrap2"
    /\ buf' = Store(buf, 0, Slice(wvals, rbLen - idx, Len(wvals)))
    /\ wpc' = "w_idx"
    /\ UNCHANGED <<idx, rbLen, hist, lastExt, wvals, wsnap, rpc, ri1, ri2,
                   got, allowed>>
    /\ UNCHANGED notCcVars

\* self._idx = end % self._len
WIdx ==
    /\ wpc = "w_idx"
    /\ idx' = (idx + Len(wvals)) % rbLen
    /\ wpc' = "w_idle"
    /\ UNCHANGED <<buf, rbLen, hist, lastExt, wvals, wsnap, rpc, ri1, ri2,
                   got, allowed>>
    /\ UNCHANGED notCcVars

\* get_ordered is called
RCall ==
    /\ rpc = "r_idle"
    /\ rpc' = "r_test"
    /\ allowed' = IF wpc = "w_idle" THEN {GetOrdered(buf, idx)}
                  ELSE {wsnap[1], wsnap[2]}
    /\ UNCHANGED <<buf, idx, rbLen, hist, lastExt, wpc, wvals, wsnap, ri1,
                   ri2, got>>
    /\ UNCHANGED notCcVars

\* if self._idx == 0: return self._buf
RTest ==
    /\ rpc = "r_test"
    /\ IF idx = 0
       THEN got' = buf /\ rpc' = "r_done"
       ELSE got' = got /\ rpc' = "r_first"
    /\ UNCHANGED <<buf, idx, rbLen, hist, lastExt, wpc, wvals, wsnap, ri1,
                   ri2, allowed>>
    /\ UNCHANGED notCcVars

\* self._buf[self._idx:], a view
RFirst ==
    /\ rpc = "r_first"
    /\ ri1' = idx
    /\ rpc' = "r_second"
    /\ UNCHANGED <<buf, idx, rbLen, hist, lastExt, wpc, wvals, wsnap, ri2,
                   got, allowed>>
    /\ UNCHANGED notCcVars

\* self._buf[:self._idx], a view
RSecond ==
    /\ rpc = "r_second"
    /\ ri2' = idx
    /\ rpc' = "r_concat"
    /\ UNCHANGED <<buf, idx, rbLen, hist, lastExt, wpc, wvals, wsnap, ri1,
                   got, allowed>>
    /\ UNCHANGED notCcVars

\* np.concatenate copies the two views
RConcat ==
    /\ rpc = "r_concat"
    /\ got' = Slice(buf, ri1, rbLen) \o Slice(buf, 0, ri2)
    /\ rpc' = "r_done"
    /\ UNCHANGED <<buf, idx, rbLen, hist, lastExt, wpc, wvals, wsnap, ri1,
                   ri2, allowed>>
    /\ UNCHANGED notCcVars

\* the caller has used the array
RReturn ==
    /\ rpc = "r_done"
    /\ rpc' = "r_idle"
    /\ got' = <<>>
    /\ ri1' = 0
    /\ ri2' = 0
    /\ allowed' = {}
    /\ UNCHANGED <<buf, idx, rbLen, hist, lastExt, wpc, wvals, wsnap>>
    /\ UNCHANGED notCcVars

InitCC ==
    SessInit /\ RBInit /\ rbLen = RBCap /\ CCInit /\ CodecIdle /\ PipeIdle /\ RestIdle

NextCC ==
    \/ WCall
    \/ WAll
    \/ WZero
    \/ WStore
    \/ WWrap1
    \/ WWrap2
    \/ WIdx
    \/ RCall
    \/ RTest
    \/ RFirst
    \/ RSecond
    \/ RConcat
    \/ RReturn

SpecCC == InitCC /\ [][NextCC]_vars

\* ------------------------------------------------------------ frame codec
\* d[k] of a Python bytes object
At(d, k) == d[k + 1]

RECURSIVE BitOr(_, _)
\* a | b
BitOr(a, b) ==
    IF a = 0 THEN b
    ELSE IF b = 0 THEN a
    ELSE (IF a % 2 = 1 \/ b % 2 = 1 THEN 1 ELSE 0)
            + 2 * BitOr(a \div 2, b \div 2)

RECURSIVE BitAnd(_, _)
\* a & b
BitAnd(a, b) ==
    IF a = 0 \/ b = 0 THEN 0
    ELSE (IF a % 2 = 1 /\ b % 2 = 1 THEN 1 ELSE 0)
            + 2 * BitAnd(a \div 2, b \div 2)

\* a << k and a >> k
Shl(a, k) == a * (2 ^ k)
Shr(a, k) == a \div (2 ^ k)

\* EEG_SCALE = 1000.0 / 2048.0; a product of it with an integer of at most
\* 12 bits is exact in binary floating point
EEG_SCALE == Ratio(1000, 2048)
Times(k, r) == Ratio(k * r.num, r.den)

\* mutant: the odd sample takes the high nibble of its first byte
EegRaw_mut(d, i) ==
    LET byte_idx == 2 + (i * 3) \div 2 IN
    IF i % 2 = 0
    THEN BitOr(Shl(At(d, byte_idx), 4), Shr(At(d, byte_idx + 1), 4))
    ELSE BitOr(Shl(Shr(At(d, byte_idx), 4), 8), At(d, byte_idx + 1))

\* unpack_eeg: `raw` of sample i
EegRaw(d, i) ==
    LET byte_idx == 2 + (i * 3) \div 2 IN
    IF i % 2 = 0
    THEN BitOr(Shl(At(d, byte_idx), 4), Shr(At(d, byte_idx + 1), 4))
    ELSE BitOr(Shl(BitAnd(At(d, byte_idx), 15), 8), At(d, byte_idx + 1))

RECURSIVE EegLoop(_, _, _)
\* unpack_eeg: the iterations i .. stop - 1 of `for i in range(stop)`, with
\* the break of both branches
EegLoop(d, i, stop) ==
    IF i >= stop THEN <<>>
    ELSE LET byte_idx == 2 + (i * 3) \div 2 IN
         IF byte_idx + 1 < Len(d)
         THEN <<Times(EegRaw(d, i) - 2048, EEG_SCALE)>>
                 \o EegLoop(d, i + 1, stop)
         ELSE <<>>

\* mutant: one iteration short
unpack_eeg_mut(d) == EegLoop(d, 0, 11)

\* visualize.unpack_eeg
unpack_eeg(d) == EegLoop(d, 0, 12)

RECURSIVE EegSamplesLoop(_, _)
\* stream.unpack_eeg_samples: the iterations i .. 11 of its loop
EegSamplesLoop(d, i) ==
    IF i >= 12 THEN <<>>
    ELSE LET byte_idx == 2 + (i * 3) \div 2 IN
         IF i % 2 = 0
         THEN IF byte_idx + 1 < Len(d)
              THEN <<Times(BitOr(Shl(At(d, byte_idx), 4),
                                 Shr(At(d, byte_idx + 1), 4)) - 2048,
                           EEG_SCALE)>>
                      \o EegSamplesLoop(d, i + 1)
              ELSE <<>>
         ELSE IF byte_idx + 1 < Len(d)
              THEN <<Times(BitOr(Shl(BitAnd(At(d, byte_idx), 15), 8),
                                 At(d, byte_idx + 1)) - 2048,
                           EEG_SCALE)>>
                      \o EegSamplesLoop(d, i + 1)
              ELSE <<>>

\* stream.unpack_eeg_samples
unpack_eeg_samples(d) == EegSamplesLoop(d, 0)

RECURSIVE IntFromBytesBig(_)
\* int.from_bytes(b, "big")
IntFromBytesBig(b) ==
    IF b = <<>> THEN 0
    ELSE 256 * IntFromBytesBig(SubSeq(b, 1, Len(b) - 1)) + b[Len(b)]

\* mutant: the two bytes are read as unsigned
UnpackH_mut(b) == IntFromBytesBig(b)

\* struct.unpack(">h", b): two's complement, big-endian
UnpackH(b) ==
    LET u == IntFromBytesBig(b) IN
    IF u >= 32768 THEN u - 65536 ELSE u

\* struct.unpack(">hhh", b)
UnpackHHH(b) ==
    <<UnpackH(Slice(b, 0, 2)), UnpackH(Slice(b, 2, 4)),
      UnpackH(Slice(b, 4, 6))>>

RECURSIVE ImuLoop(_, _)
\* unpack_imu and unpack_imu_samples: the iterations i .. 2 of the loop; the
\* first appends floats, the second ints, of the same values
ImuLoop(d, i) ==
    IF i >= 3 THEN <<>>
    ELSE LET offset == 2 + i * 6 IN
         IF offset + 6 <= Len(d)
         THEN <<UnpackHHH(Slice(d, offset, offset + 6))>>
                 \o ImuLoop(d, i + 1)
         ELSE ImuLoop(d, i + 1)

\* visualize.unpack_imu
unpack_imu(d) == ImuLoop(d, 0)

\* stream.unpack_imu_samples
unpack_imu_samples(d) == ImuLoop(d, 0)

\* mutant: four bytes are enough for the battery field
TelemBattery_mut(raw, old) ==
    IF Len(raw) >= 4
    THEN Ratio(IntFromBytesBig(Slice(raw, 2, 4)), 100)
    ELSE old

\* _telem_handler: MuseData.battery after the notification `raw`
TelemBattery(raw, old) ==
    IF Len(raw) >= 6
    THEN Ratio(IntFromBytesBig(Slice(raw, 2, 4)), 100)
    ELSE old

\* the characters of the commands the programs send, and ord of each
CmdChars == {"v", "6", "s", "h", "p", "2", "1", "d"}
Ord ==
    ("v" :> 118) @@ ("6" :> 54) @@ ("s" :> 115) @@ ("h" :> 104) @@
    ("p" :> 112) @@ ("2" :> 50) @@ ("1" :> 49) @@ ("d" :> 100)

\* bytes(list): every item must be in range(256)
Bytes(list) ==
    IF \A i \in DOMAIN list : list[i] \in 0..255
    THEN list
    ELSE "ValueError"

\* mutant: the length byte counts the characters only
cmd_mut(str) ==
    Bytes(<<Len(str)>> \o [i \in 1..Len(str) |-> Ord[str[i]]] \o <<10>>)

\* visualize.cmd
cmd(str) ==
    Bytes(<<Len(str) + 1>> \o [i \in 1..Len(str) |-> Ord[str[i]]] \o <<10>>)

\* stream.cmd
cmd_stream(str) ==
    Bytes(<<Len(str) + 1>> \o [i \in 1..Len(str) |-> Ord[str[i]]] \o <<10>>)

\* raw_connect.cmd
cmd_raw_connect(str) ==
    Bytes(<<Len(str) + 1>> \o [i \in 1..Len(str) |-> Ord[str[i]]] \o <<10>>)

\* bounds of the codec inputs: payloads of 0..MaxPay bytes whose two header
\* bytes are equal and whose body repeats a pattern of PatLen bytes; command
\* strings of at most MaxCmdLen characters
MaxPay == 20
PatLen == 4
MaxCmdLen == 3
ByteVals == {0, 90, 165, 255}
HdrVals == {0, 255}

Payloads ==
    {[k \in 1..len |-> IF k <= 2 THEN h ELSE pat[((k - 3) % PatLen) + 1]] :
        len \in 0..MaxPay, h \in HdrVals, pat \in [1..PatLen -> ByteVals]}

CmdStrings == UNION {[1..len -> CmdChars] : len \in 0..MaxCmdLen}

\* one input, not yet used
CodecInit ==
    /\ out = <<>>
    /\ battery = Ratio(0, 1)
    /\ prevBattery = battery
    /\ \/ fn = "payload" /\ data \in Payloads /\ cmdArg = <<>>
       \/ fn = "command" /\ data = <<>> /\ cmdArg \in CmdStrings

\* the EEG notification handler of visualize.py decodes the payload
CallUnpackEeg ==
    /\ fn = "payload"
    /\ fn' = "unpack_eeg"
    /\ out' = unpack_eeg(data)
    /\ prevBattery' = battery
    /\ UNCHANGED <<data, cmdArg, battery>>
    /\ UNCHANGED notCodecVars

\* the EEG notification handler of stream.py decodes the payload
CallUnpackEegSamples ==
    /\ fn = "payload"
    /\ fn' = "unpack_eeg_samples"
    /\ out' = unpack_eeg_samples(data)
    /\ prevBattery' = battery
    /\ UNCHANGED <<data, cmdArg, battery>>
    /\ UNCHANGED notCodecVars

\* _accel_handler / _gyro_handler of visualize.py decode the payload
CallUnpackImu ==
    /\ fn = "payload"
    /\ fn' = "unpack_imu"
    /\ out' = unpack_imu(data)
    /\ prevBattery' = battery
    /\ UNCHANGED <<data, cmdArg, battery>>
    /\ UNCHANGED notCodecVars

\* the IMU notification handler of stream.py decodes the payload
CallUnpackImuSamples ==
    /\ fn = "payload"
    /\ fn' = "unpack_imu_samples"
    /\ out' = unpack_imu_samples(data)
    /\ prevBattery' = battery
    /\ UNCHANGED <<data, cmdArg, battery>>
    /\ UNCHANGED notCodecVars

\* _telem_handler
TelemHandler ==
    /\ fn = "payload"
    /\ fn' = "telem"
    /\ battery' = TelemBattery(data, battery)
    /\ prevBattery' = battery
    /\ UNCHANGED <<data, cmdArg, out>>
    /\ UNCHANGED notCodecVars

\* visualize.py frames a command
CallCmd ==
    /\ fn = "command"
    /\ fn' = "cmd"
    /\ out' = cmd(cmdArg)
    /\ prevBattery' = battery
    /\ UNCHANGED <<data, cmdArg, battery>>
    /\ UNCHANGED notCodecVars

\* stream.py frames a command
CallCmdStream ==
    /\ fn = "command"
    /\ fn' = "cmd_stream"
    /\ out' = cmd_stream(cmdArg)
    /\ prevBattery' = battery
    /\ UNCHANGED <<data, cmdArg, battery>>
    /\ UNCHANGED notCodecVars

\* raw_connect.py frames a command
CallCmdRawConnect ==
    /\ fn = "command"
    /\ fn' = "cmd_raw_connect"
    /\ out' = cmd_raw_connect(cmdArg)
    /\ prevBattery' = battery
    /\ UNCHANGED <<data, cmdArg, battery>>
    /\ UNCHANGED notCodecVars

InitCodec ==
    SessInit /\ RBInit /\ rbLen = RBCap /\ CCInit /\ CodecInit /\ PipeIdle /\ RestIdle

NextCodec ==
    \/ CallUnpackEeg
    \/ CallUnpackEegSamples
    \/ CallUnpackImu
    \/ CallUnpackImuSamples
    \/ TelemHandler
    \/ CallCmd
    \/ CallCmdStream
    \/ CallCmdRawConnect

SpecCodec == InitCodec /\ [][NextCodec]_vars

\* ------------------------------------------------------- live analysis
\* bounds: samples per frame, rounds of four frames the headband sends, and
\* timer ticks of each run
FrameLen == 2
MaxRounds == 5
MaxTicks == 10

BLINK_THRESHOLD == 150

\* the frame script with a blink at sample `spike` (0: no blink): in every
\* round one frame per EEG channel.  TP9 and TP10 carry a ramp, so every
\* sample of a channel is recognisable; AF7 and AF8 are flat but for the blink.
FrameScript(spike) ==
    [f \in 1..(4 * MaxRounds) |->
        LET round == (f - 1) \div 4
            ch == SensorOrder[((f - 1) % 4) + 1]
        IN [ch |-> ch,
            samples |-> [j \in 1..FrameLen |->
                LET g == round * FrameLen + j IN
                IF ch = "TP9" THEN g
                ELSE IF ch = "TP10" THEN 100 + g
                ELSE IF g = spike THEN 300 ELSE 0]]]

\* the frames of s without those of one channel: its characteristic is not
\* among the available ones, so no handler is subscribed for it
WithoutChannel(s, ch) == SelectSeq(s, LAMBDA f : f.ch # ch)

\* headbands with all four EEG characteristics
FullScripts == {FrameScript(spike) : spike \in 0..(MaxRounds * FrameLen)}

\* and headbands without the TP9 characteristic
FrameScripts ==
    FullScripts \cup {WithoutChannel(FrameScript(spike), "TP9") : spike \in {0, 3}}

\* x[~np.isnan(x)]
Valid(x) == SelectSeq(x, LAMBDA v : v # NaN)

\* the indices where ~np.isnan(a) & ~np.isnan(b)
BothValid(a, b) ==
    SelectSeq([i \in 1..Len(a) |-> i], LAMBDA i : a[i] # NaN /\ b[i] # NaN)

\* a[mask]
Pick(a, ix) == [k \in 1..Len(ix) |-> a[ix[k]]]

\* x[-k:]
LastK(x, k) == IF Len(x) <= k THEN x ELSE SubSeq(x, Len(x) - k + 1, Len(x))

\* find_peaks(x, height=h): the first index of every plateau that is higher
\* than both its neighbours and at least h high.  No two peaks of these inputs
\* are closer than the `distance` of the call, which removes nothing.
FindPeaks(x, h) ==
    {i \in 2..(Len(x) - 1) :
        /\ x[i - 1] < x[i]
        /\ x[i] >= h
        /\ \E j \in (i + 1)..Len(x) :
            /\ x[j] < x[i]
            /\ \A k \in i..(j - 1) : x[k] = x[i]}

\* np.abs
Abs(v) == IF v < 0 THEN 0 - v ELSE v

\* mutant: the band powers wait for a full two-second segment
BandGate_mut == 2 * Sec

\* the valid samples below which _update_signal_processing returns at once
BandGate == Sec

\* _update_signal_processing of run r: the analysis state after the cycle
Analysis(r) ==
    LET tp9 == GetOrdered(eeg[r]["TP9"].buf, eeg[r]["TP9"].idx)
        tp10 == GetOrdered(eeg[r]["TP10"].buf, eeg[r]["TP10"].idx)
        af7 == GetOrdered(eeg[r]["AF7"].buf, eeg[r]["AF7"].idx)
        af8 == GetOrdered(eeg[r]["AF8"].buf, eeg[r]["AF8"].idx)
        valid == Valid(tp9)
        seg == LastK(valid, 2 * Sec)
        valid_f == BothValid(af7, af8)
        a7 == LastK(Pick(af7, valid_f), Sec)
        a8 == LastK(Pick(af8, valid_f), Sec)
        abs_sig == [k \in 1..Len(a7) |-> Abs((a7[k] + a8[k]) \div 2)]
        peaks == FindPeaks(abs_sig, BLINK_THRESHOLD)
        valid_lr == BothValid(tp9, tp10)
        left == LastK(Pick(tp9, valid_lr), 2 * Sec)
        right == LastK(Pick(tp10, valid_lr), 2 * Sec)
        asym == <<Welch(left, Sec), Welch(right, Sec)>>
        doAsym == Len(valid_lr) > 2 * Sec
    IN
    IF Len(valid) < BandGate
    THEN [band |-> bandBars[r], blinks |-> blinkCount[r],
          asym |-> asymOut[r], hist |-> asymHist[r], n |-> Len(valid),
          nf |-> Len(valid_f), ranBlink |-> FALSE]
    ELSE [band |-> Welch(seg, Min(Sec, Len(seg))),
          blinks |-> IF Len(valid_f) > Sec
                     THEN blinkCount[r] + Cardinality(peaks)
                     ELSE blinkCount[r],
          asym |-> IF doAsym THEN asym ELSE asymOut[r],
          hist |-> IF doAsym
                   THEN Extend(asymHist[r].buf, asymHist[r].idx, 30, <<asym>>)
                   ELSE asymHist[r],
          n |-> Len(valid),
          nf |-> Len(valid_f), ranBlink |-> Len(valid_f) > Sec]

\* a notification handler made by _make_eeg_handler runs: the decoded samples
\* of the next frame are appended to the channel's buffer.  Both runs are fed
\* the same frames; how far one run is ahead of the other in time does not
\* matter, so the frame is delivered to both in one step.
FrameArrives ==
    /\ fpos < Len(script)
    /\ fpos' = fpos + 1
    /\ LET f == script[fpos + 1] IN
        eeg' = [r \in Runs |-> [eeg[r] EXCEPT ![f.ch] =
                    Extend(@.buf, @.idx, EEG_BUF_LEN, f.samples)]]
    /\ UNCHANGED <<script, spCounter, blinkCount, bandBars, asymOut, asymHist,
                   cyc>>
    /\ UNCHANGED notPipeVars

\* update_plots of run r, called by its QTimer
TimerTick(r) ==
    /\ spCounter[r] < MaxTicks
    /\ spCounter' = [spCounter EXCEPT ![r] = @ + 1]
    /\ IF (spCounter[r] + 1) % 5 = 0
       THEN LET a == Analysis(r) IN
            /\ bandBars' = [bandBars EXCEPT ![r] = a.band]
            /\ blinkCount' = [blinkCount EXCEPT ![r] = a.blinks]
            /\ asymOut' = [asymOut EXCEPT ![r] = a.asym]
            /\ asymHist' = [asymHist EXCEPT ![r] = a.hist]
            /\ cyc' = [cyc EXCEPT ![r] =
                        [n |-> a.n, at |-> fpos, before |-> bandBars[r],
                         nf |-> a.nf, ranBlink |-> a.ranBlink]]
       ELSE UNCHANGED <<bandBars, blinkCount, asymOut, asymHist, cyc>>
    /\ UNCHANGED <<script, fpos, eeg>>
    /\ UNCHANGED notPipeVars

\* analyze.compute_band_powers on n samples: the window starts,
\* range(0, n - window_samples, step)
BandWindowStarts(n) ==
    LET window_samples == 2 * Sec
        step == window_samples \div 2
    IN {start \in 0..n : start % step = 0 /\ start < n - window_samples}

TimerTick1 == TimerTick(1)

TimerTick2 == TimerTick(2)

InitPipe ==
    /\ SessInit /\ RBInit /\ rbLen = RBCap /\ CCInit /\ CodecIdle /\ RestIdle
    /\ PipeInit /\ script \in FrameScripts

\* one run: the timer of run 2 never fires
NextPipe ==
    \/ FrameArrives
    \/ TimerTick1

SpecPipe == InitPipe /\ [][NextPipe]_vars

\* two runs, each with its own timer
NextRepro ==
    \/ FrameArrives
    \/ TimerTick1
    \/ TimerTick2

\* the two runs are compared on headbands with all four EEG characteristics,
\* without a blink or with one in the first two rounds
InitRepro ==
    /\ SessInit /\ RBInit /\ rbLen = RBCap /\ CCInit /\ CodecIdle /\ RestIdle
    /\ PipeInit /\ script \in {FrameScript(spike) : spike \in 0..(2 * FrameLen)}

SpecRepro == InitRepro /\ [][NextRepro]_vars

\* ------------------------------------------- analyze.py: the pure functions
\* Sample arrays are short integer sequences; Sec samples stand for one
\* second (fs), so a window of compute_band_powers is 2 * Sec samples and
\* its step is Sec samples.

\* bounds: whole steps of data beyond one window, and the largest asymmetry
\* value classified, in hundredths
MaxSteps == 2
MaxAsym == 30

MaxSamples == (MaxSteps + 2) * Sec

SignalKinds == {"const", "alt", "ramp", "step"}

\* a recording of n samples
Signal(kind, n) ==
    [i \in 1..n |->
        CASE kind = "const" -> 1
          [] kind = "alt" -> i % 2
          [] kind = "ramp" -> i % 3
          [] OTHER -> IF i > Sec THEN 2 ELSE 0]

Signals == {Signal(kind, n) : kind \in SignalKinds, n \in 0..MaxSamples}

RECURSIVE Total(_)
Total(q) == IF q = <<>> THEN 0 ELSE q[1] + Total(Tail(q))

\* np.mean(psd[mask]) of welch(segment - np.mean(segment)) for the alpha
\* band.  welch is not computed: the power of a segment is taken to be the
\* energy of the segment with its mean removed (times Len^2, to stay in the
\* integers), a function of the segment alone that is 0 for a constant one.
\* Powers are counted in units of epsilon.
AlphaPower(segment) ==
    LET n == Len(segment)
        total == Total(segment)
    IN Total([i \in 1..n |-> (n * segment[i] - total) * (n * segment[i] - total)])

\* the window starts in the order the for loop visits them
WindowStartSeq(n) ==
    LET S == BandWindowStarts(n)
    IN [k \in 1..Cardinality(S) |->
            CHOOSE s \in S : Cardinality({t \in S : t < s}) = k - 1]

\* compute_band_powers(data): times and the alpha powers, one per window
compute_band_powers(d) ==
    LET window_samples == 2 * Sec
        starts == WindowStartSeq(Len(d))
    IN [times |-> [k \in DOMAIN starts |->
                        Ratio(starts[k] + window_samples \div 2, Sec)],
        alpha |-> [k \in DOMAIN starts |->
                        AlphaPower(Slice(d, starts[k],
                                         starts[k] + window_samples))]]

\* epsilon of alpha_asymmetry, in units of epsilon
epsilon == 1

\* the real number ln(a) - ln(b), kept as the pair of its arguments
LogDiff(a, b) == [hi |-> a, lo |-> b]

\* mutant: epsilon is added on one side only
Asymmetry_mut(right_alpha, left_alpha) ==
    LogDiff(right_alpha + epsilon, left_alpha)

\* np.log(right_alpha + epsilon) - np.log(left_alpha + epsilon)
Asymmetry(right_alpha, left_alpha) ==
    LogDiff(right_alpha + epsilon, left_alpha + epsilon)

\* alpha_asymmetry(left_data, right_data)
alpha_asymmetry(l, r) ==
    LET powers_l == compute_band_powers(l)
        powers_r == compute_band_powers(r)
        n == Min(Len(powers_l.alpha), Len(powers_r.alpha))
    IN [times |-> SubSeq(powers_l.times, 1, n),
        asymmetry |-> [k \in 1..n |->
                          Asymmetry(powers_r.alpha[k], powers_l.alpha[k])]]

\* the asymmetry of one live cycle: la and ra of the latest 2 * Sec samples
\* of the two lateral buffers, then log(ra + 1e-10) - log(la + 1e-10)
LiveAsymmetry(tp9, tp10) ==
    LET la == AlphaPower(LastK(tp9, 2 * Sec))
        ra == AlphaPower(LastK(tp10, 2 * Sec))
    IN Asymmetry(ra, la)

\* the thresholds of the two classifications, in hundredths
MainThreshold == 10
LiveThreshold == 20

\* analyze.main: the label printed for the session mean
MainDominance(v) ==
    IF v > MainThreshold THEN "right"
    ELSE IF v < -MainThreshold THEN "left"
    ELSE "balanced"

\* MuseWindow._update_signal_processing: the text of dominant_label
LiveDominance(v) ==
    IF v > LiveThreshold THEN "right"
    ELSE IF v < -LiveThreshold THEN "left"
    ELSE "balanced"

\* the input of one call: two recordings, or one asymmetry value
AnaInit ==
    /\ afn \in {"signals", "value"}
    /\ aout = <<>>
    /\ IF afn = "signals"
       THEN left_data \in Signals /\ right_data \in Signals /\ mean_asym = 0
       ELSE /\ left_data = <<>> /\ right_data = <<>>
            /\ mean_asym \in (-MaxAsym)..MaxAsym

CallComputeBandPowers ==
    /\ afn = "signals"
    /\ afn' = "compute_band_powers"
    /\ aout' = compute_band_powers(left_data)
    /\ UNCHANGED <<left_data, right_data, mean_asym>>
    /\ UNCHANGED notAnaVars

CallAlphaAsymmetry ==
    /\ afn = "signals"
    /\ afn' = "alpha_asymmetry"
    /\ aout' = alpha_asymmetry(left_data, right_data)
    /\ UNCHANGED <<left_data, right_data, mean_asym>>
    /\ UNCHANGED notAnaVars

\* the asymmetry step of a live cycle whose two buffers hold the recordings
CallLiveAsymmetry ==
    /\ afn = "signals"
    /\ Len(left_data) = Len(right_data)
    /\ Len(left_data) > 2 * Sec
    /\ afn' = "live_asymmetry"
    /\ aout' = LiveAsymmetry(left_data, right_data)
    /\ UNCHANGED <<left_data, right_data, mean_asym>>
    /\ UNCHANGED notAnaVars

CallMainDominance ==
    /\ afn = "value"
    /\ afn' = "main_dominance"
    /\ aout' = MainDominance(mean_asym)
    /\ UNCHANGED <<left_data, right_data, mean_asym>>
    /\ UNCHANGED notAnaVars

CallLiveDominance ==
    /\ afn = "value"
    /\ afn' = "live_dominance"
    /\ aout' = LiveDominance(mean_asym)
    /\ UNCHANGED <<left_data, right_data, mean_asym>>
    /\ UNCHANGED notAnaVars

InitAna ==
    /\ SessInit /\ RBInit /\ rbLen = RBCap /\ CCInit /\ CodecIdle /\ PipeIdle
    /\ ScriptIdle /\ ViewIdle /\ AnaInit

NextAna ==
    \/ CallComputeBandPowers
    \/ CallAlphaAsymmetry
    \/ CallLiveAsymmetry
    \/ CallMainDominance
    \/ CallLiveDominance

SpecAna == InitAna /\ [][NextAna]_vars

\* ------------------------------------ stream.stream and raw_connect.main
\* Both scripts are one coroutine without a retry loop: every await is one
\* action, and an awaited link operation that raises outside a try block
\* ends the script (spc = "raised").
Progs == {"stream", "raw_connect"}

\* the order in which each script examines the sensor characteristics:
\* EEG_UUIDS, accel, gyro, telem in stream.stream; ALL_SENSOR_UUIDS in
\* raw_connect.main
ScriptSensorOrder(p) ==
    IF p = "stream"
    THEN <<"TP9", "AF7", "AF8", "TP10", "AUX_L", "AUX_R",
           "ACCEL", "GYRO", "TELEM">>
    ELSE <<"TP9", "AF7", "AF8", "TP10", "AUX_R", "AUX_L", "REF",
           "GYRO", "ACCEL", "PPG1", "PPG2", "PPG3", "TELEM", "THERMO">>

\* characteristic tables the device may expose on the second connect
ScriptAvailChoices ==
    { {},
      {"TP9", "AF7", "AF8", "TP10"},
      {"TP9", "ACCEL", "TELEM"},
      {"AF7", "REF", "THERMO"},
      {"TP10", "AUX_L", "AUX_R", "GYRO", "PPG1"} }

\* mutant: the membership test is lost
ScriptNextAvail_mut(order, p, av) == p

\* the first position >= p of order whose characteristic is in av,
\* Len(order) + 1 when there is none
ScriptNextAvail(order, p, av) ==
    IF \E i \in p..Len(order) : order[i] \in av
    THEN CHOOSE i \in p..Len(order) :
            /\ order[i] \in av
            /\ \A j \in p..(i - 1) : order[j] \notin av
    ELSE Len(order) + 1

\* an awaited link operation outside any try block
ScriptStep(name, a, nextPc) ==
    /\ \E ok \in BOOLEAN :
        /\ sops' = Append(sops, Op(name, a, ok))
        /\ spc' = IF ok THEN nextPc ELSE "raised"
    /\ UNCHANGED <<prog, savail, spos>>
    /\ UNCHANGED notScriptVars

\* asyncio.sleep: ms in stream.stream, ms2 in raw_connect.main
ScriptDelay(ms, ms2, nextPc) ==
    /\ sops' = Append(sops, Sleep(IF prog = "stream" THEN ms ELSE ms2))
    /\ spc' = nextPc
    /\ UNCHANGED <<prog, savail, spos>>
    /\ UNCHANGED notScriptVars

ScriptInit ==
    /\ prog \in Progs
    /\ spc = "connect1"
    /\ sops = <<>>
    /\ savail = {}
    /\ spos = 1

SConnect1 == spc = "connect1" /\ ScriptStep("connect", "", "notify_ctrl1")

SNotifyCtrl1 ==
    spc = "notify_ctrl1" /\ ScriptStep("start_notify", "CONTROL", "sleep1")

SSleep1 == spc = "sleep1" /\ ScriptDelay(100, 200, "write_v6")

SWriteV6 == spc = "write_v6" /\ ScriptStep("write", "v6", "sleep2")

SSleep2 == spc = "sleep2" /\ ScriptDelay(300, 500, "write_s")

SWriteS == spc = "write_s" /\ ScriptStep("write", "s", "sleep3")

SSleep3 == spc = "sleep3" /\ ScriptDelay(300, 500, "write_h")

SWriteH == spc = "write_h" /\ ScriptStep("write", "h", "sleep4")

SSleep4 == spc = "sleep4" /\ ScriptDelay(200, 300, "disconnect1")

SDisconnect1 == spc = "disconnect1" /\ ScriptStep("disconnect", "", "settle")

SSettle == spc = "settle" /\ ScriptDelay(1500, 1500, "connect2")

\* the second connect; `available` is read from client.services
SConnect2 ==
    /\ spc = "connect2"
    /\ \E ok \in BOOLEAN :
        /\ sops' = Append(sops, Op("connect", "", ok))
        /\ IF ok
           THEN spc' = "notify_ctrl2" /\ savail' \in ScriptAvailChoices
           ELSE spc' = "raised" /\ UNCHANGED savail
    /\ UNCHANGED <<prog, spos>>
    /\ UNCHANGED notScriptVars

SNotifyCtrl2 ==
    spc = "notify_ctrl2" /\ ScriptStep("start_notify", "CONTROL", "sensors")

\* `if uuid in available: await client.start_notify(uuid, ...)`; in
\* raw_connect.main inside try/except, so a failure goes on to the next one
SNotifySensor ==
    /\ spc = "sensors"
    /\ LET order == ScriptSensorOrder(prog)
           i == ScriptNextAvail(order, spos, savail)
       IN /\ i <= Len(order)
          /\ \E ok \in BOOLEAN :
                /\ sops' = Append(sops, Op("start_notify", order[i], ok))
                /\ spc' = IF ok \/ prog = "raw_connect"
                          THEN "sensors" ELSE "raised"
          /\ spos' = i + 1
    /\ UNCHANGED <<prog, savail>>
    /\ UNCHANGED notScriptVars

SWriteP21 ==
    /\ spc = "sensors"
    /\ ScriptNextAvail(ScriptSensorOrder(prog), spos, savail)
            > Len(ScriptSensorOrder(prog))
    /\ ScriptStep("write", "p21", "sleep5")

SSleep5 == spc = "sleep5" /\ ScriptDelay(300, 500, "write_d")

SWriteD == spc = "write_d" /\ ScriptStep("write", "d", "streaming")

\* stop_event.wait() returns or times out; asyncio.sleep(20) returns
SWait ==
    /\ spc = "streaming"
    /\ spc' = "fin_halt"
    /\ UNCHANGED <<prog, sops, savail, spos>>
    /\ UNCHANGED notScriptVars

\* try: write 'h'; sleep; except: pass
SFinHalt ==
    /\ spc = "fin_halt"
    /\ \E ok \in BOOLEAN :
        /\ sops' = Append(sops, Op("write", "h", ok))
        /\ spc' = IF ok THEN "fin_sleep" ELSE "fin_disconnect"
    /\ UNCHANGED <<prog, savail, spos>>
    /\ UNCHANGED notScriptVars

SFinSleep == spc = "fin_sleep" /\ ScriptDelay(200, 300, "fin_disconnect")

SFinDisconnect ==
    spc = "fin_disconnect" /\ ScriptStep("disconnect", "", "done")

InitScript ==
    /\ SessInit /\ RBInit /\ rbLen = RBCap /\ CCInit /\ CodecIdle /\ PipeIdle
    /\ AnaIdle /\ ViewIdle /\ ScriptInit

NextScript ==
    \/ SConnect1 \/ SNotifyCtrl1 \/ SSleep1 \/ SWriteV6 \/ SSleep2
    \/ SWriteS \/ SSleep3 \/ SWriteH \/ SSleep4 \/ SDisconnect1 \/ SSettle
    \/ SConnect2 \/ SNotifyCtrl2 \/ SNotifySensor \/ SWriteP21 \/ SSleep5
    \/ SWriteD \/ SWait \/ SFinHalt \/ SFinSleep \/ SFinDisconnect

SpecScript == InitScript /\ [][NextScript]_vars

\* ------------------------------------------------------------ properties
\* pcs of the streaming loop of _run
StreamPcs == {"stream_test", "stream_sleep"}

RECURSIVE SeqSum(_)
SeqSum(q) == IF q = <<>> THEN 0 ELSE q[1] + SeqSum(Tail(q))

\* the index of the last connect in the log, 0 when there is none
LastConnect(o) ==
    IF \E i \in DOMAIN o : o[i].op = "connect"
    THEN CHOOSE i \in DOMAIN o :
            /\ o[i].op = "connect"
            /\ \A j \in (i + 1)..Len(o) : o[j].op # "connect"
    ELSE 0

\* what was called, without its outcome
Sig(o) == [i \in DOMAIN o |-> <<o[i].op, o[i].arg, o[i].ms>>]

\* C1: when attempts 1-4 of the first for loop failed and the 5th succeeded,
\* the session is Streaming, the waits taken were 2, 4, 6, 8 seconds (20 s in
\* total), and the attempt counter stays at 5 for as long as it streams: no
\* 6th attempt follows the success.
C1_FifthAttemptStreams ==
    (losses = 0 /\ ~stopReq /\ pc \in StreamPcs /\ Len(backoffs) = 4) =>
        /\ status = "Streaming"
        /\ connected
        /\ backoffs = <<2, 4, 6, 8>>
        /\ SeqSum(backoffs) >= 20
        /\ attempt = 5

C1_Witness ==
    losses = 0 /\ ~stopReq /\ pc = "stream_sleep" /\ Len(backoffs) = 4

\* C2: once 5 attempts of a for loop have failed, the session only waits out
\* the last backoff and returns in the Failed state (status "Could not
\* connect...", connected False); after _run has returned no link operation is
\* issued any more.
C2_AllFailEndsFailed ==
    /\ [](Len(backoffs) = 5 =>
            /\ pc \in {"backoff", "for_test", "done"}
            /\ pc = "done" => (status = "CouldNotConnect" /\ ~connected))
    /\ [][pc = "done" => (pc' = "done" /\ ops' = ops)]_vars

C2_Witness ==
    pc = "done" /\ Len(backoffs) = 5 /\ status = "CouldNotConnect" /\ ~connected

\* C3 (as claimed): after a link loss, with no stop requested, no run of
\* failed reconnection attempts makes _run return or the session Failed.
C3_ReconnectUnbounded ==
    (losses >= 1 /\ ~stopReq) => (pc # "done" /\ status # "CouldNotConnect")

\* C4 (as claimed): when stop() was requested before _run returned, _run ends
\* with status "Disconnected" and connected False.
C4_StopEndsDisconnected ==
    (pc = "done" /\ stopReq /\ stopIn # "done") =>
        (status = "Disconnected" /\ ~connected)

\* C5 (as claimed): no client on which connect() succeeded is dropped without
\* a call of disconnect() on it.
C5_LinkAlwaysReleased ==
    leaked = 0 /\ (pc = "done" => ~csOpen)

\* the step issues a connect, a start_notify, or the preset or start command
ForwardOp ==
    /\ Len(ops') = Len(ops) + 1
    /\ LET o == ops'[Len(ops')] IN
        \/ o.op \in {"connect", "start_notify"}
        \/ o.op = "write" /\ o.arg \in {"p21", "d"}

\* C6 (as claimed): after a stop() requested while the session was suspended
\* in a delay, no connect, no start_notify and no preset or start command is
\* issued.
C6_DelaysCancellable ==
    [][(stopReq /\ stopIn = "delay") => ~ForwardOp]_vars

\* C7 (as claimed): an attempt that reaches Streaming has written 'v6', 's'
\* and 'h' in that order, then disconnected, settled and reconnected.
C7_FullHandshake ==
    pc \in StreamPcs =>
        \E a, b, c, d, e \in DOMAIN ops :
            /\ a < b /\ b < c /\ c < d /\ d < e /\ e <= LastConnect(ops)
            /\ ops[a].op = "write" /\ ops[a].arg = "v6"
            /\ ops[b].op = "write" /\ ops[b].arg = "s"
            /\ ops[c].op = "write" /\ ops[c].arg = "h"
            /\ ops[d].op = "disconnect"
            /\ ops[e].op = "sleep" /\ ops[e].ms >= 1000

\* the calls of an attempt up to its last connect, when phase 1 ran
WakeSig ==
    << <<"connect", "", 0>>, <<"disconnect", "", 0>>, <<"connect", "", 0>>,
       <<"start_notify", "CONTROL", 0>>, <<"sleep", "", 100>>,
       <<"write", "h", 0>>, <<"sleep", "", 200>>, <<"disconnect", "", 0>>,
       <<"sleep", "", 1000>>, <<"connect", "", 0>> >>

\* C7 (amended): an attempt that subscribes to sensors either found an EEG
\* characteristic on its first and only connect, or has first performed the
\* wake sequence connect, disconnect, connect, subscribe control, write 'h',
\* disconnect, settle 1 s, reconnect.
C7_WakeWhenNeeded ==
    pc \in StreamPcs \cup {"cs_notify_ctrl", "cs_sensors", "cs_sleep", "cs_write_d"} =>
        LET pre == Sig(SubSeq(ops, 1, LastConnect(ops))) IN
            \/ pre = << <<"connect", "", 0>> >> /\ available \cap EegSensors # {}
            \/ pre = WakeSig

C7_Witness ==
    pc = "stream_sleep" /\ Sig(SubSeq(ops, 1, LastConnect(ops))) = WakeSig

\* the sensor characteristics start_notify was called for since the last connect
Notified(o) ==
    {o[i].arg : i \in {j \in DOMAIN o : /\ j > LastConnect(o)
                                        /\ o[j].op = "start_notify"
                                        /\ o[j].arg # "CONTROL"}}

WrittenOk(o, c) ==
    \E i \in DOMAIN o : i > LastConnect(o) /\ o[i] = Op("write", c, TRUE)

\* C8: start_notify is called only for sensor characteristics that were
\* enumerated; once the subscriptions are through it has been called for
\* exactly the known sensors that were enumerated; an attempt that streams has
\* written the preset and the start command; and an attempt fails only
\* because a link operation raised, never because a characteristic is absent.
C8_SubscribePresentOnly ==
    /\ pc \in {"cs_notify_ctrl", "cs_sensors", "cs_sleep", "cs_write_d"} =>
            Notified(ops) \subseteq available
    /\ pc \in {"cs_sleep", "cs_write_d"} \cup StreamPcs =>
            Notified(ops) = available \cap Sensors
    /\ pc \in StreamPcs => WrittenOk(ops, "p21") /\ WrittenOk(ops, "d")
    /\ pc = "backoff" => \E i \in DOMAIN ops : ~ops[i].ok

C8_Witness ==
    pc = "stream_sleep" /\ available = {"TP9", "TP10", "TELEM"}

\* C9: when _run leaves its finally block with a client, the last calls were
\* the halt write and then disconnect, the disconnect also when the halt
\* write raised, and connected is False whatever the two calls did.
C9_TeardownBestEffort ==
    (pc \in {"run_while", "done"} /\ client = "client") =>
        /\ ~connected
        /\ Len(ops) >= 2
        /\ ops[Len(ops)].op = "disconnect"
        /\ \/ ops[Len(ops) - 1] = Op("write", "h", FALSE)
           \/ /\ Len(ops) >= 3
              /\ ops[Len(ops) - 1] = Sleep(200)
              /\ ops[Len(ops) - 2] = Op("write", "h", TRUE)

C9_Witness ==
    /\ pc = "done" /\ client = "client" /\ ~connected
    /\ ops[Len(ops)] = Op("disconnect", "", FALSE)
    /\ ops[Len(ops) - 1] = Op("write", "h", FALSE)

\* the last n entries of the capacity's worth of sentinels followed by h
LastN(h, n) ==
    LET all == [i \in 1..n |-> NaN] \o h
    IN SubSeq(all, Len(all) - n + 1, Len(all))

\* C10: after any sequence of extend calls on a fresh buffer of capacity N,
\* get_ordered is N entries: the last N values extended, preceded by sentinels
\* when fewer than N were extended; the capacity is unchanged.
C10_OrderedIsHistoryTail ==
    /\ Len(buf) = rbLen
    /\ idx \in 0..(rbLen - 1)
    /\ Len(GetOrdered(buf, idx)) = rbLen
    /\ GetOrdered(buf, idx) = LastN(hist, rbLen)

C10_Witness ==
    /\ rbLen = 3 /\ idx = 2 /\ Len(hist) = 5
    /\ GetOrdered(buf, idx) = SubSeq(hist, 3, 5)

\* C11: whatever the buffer held and wherever its cursor stood, after one
\* extend with M >= N values get_ordered is exactly the last N of those M
\* values, in order, and the cursor is 0.
C11_LongExtendKeepsTail ==
    Len(lastExt) >= rbLen =>
        /\ idx = 0
        /\ GetOrdered(buf, idx) =
               SubSeq(lastExt, Len(lastExt) - rbLen + 1, Len(lastExt))

\* an extend of 4 values on a buffer of 3 whose cursor stood at 2
C11_Witness ==
    /\ rbLen = 3 /\ Len(hist) = 6 /\ Len(lastExt) = 4
    /\ idx = 0 /\ buf = SubSeq(lastExt, 2, 4)

\* C12: with extend on the BLE thread and get_ordered on the GUI thread, every
\* array get_ordered returns is the ordered contents at a call boundary of an
\* extend it overlaps: as before that extend started or as after it finished.
C12_ReadsNeverTorn ==
    rpc = "r_done" => got \in allowed

\* bit k (0 = the most significant bit of the byte at offset 2) of the payload
\* body
BodyBit(d, k) == (At(d, 2 + (k \div 8)) \div (2 ^ (7 - (k % 8)))) % 2

RECURSIVE BitField(_, _, _)
\* the unsigned number made of the n body bits from bit k on
BitField(d, k, n) ==
    IF n = 0 THEN 0
    ELSE BodyBit(d, k) * (2 ^ (n - 1)) + BitField(d, k + 1, n - 1)

\* (raw - 2048) * 1000 / 2048 for the 12-bit field of sample i
FieldMicrovolts(d, i) == Ratio((BitField(d, 12 * i, 12) - 2048) * 1000, 2048)

\* C13: both EEG decoders return 12 values for a 20-byte payload; value i is
\* (raw_i - 2048) * 1000 / 2048 where raw_i in 0..4095 is the i-th 12-bit
\* field of bytes 2..19 (144 bits, each in exactly one field); bytes 0 and 1
\* have no influence.
C13_EegTwelveFields ==
    (fn \in {"unpack_eeg", "unpack_eeg_samples"} /\ Len(data) = 20) =>
        /\ Len(out) = 12
        /\ \A i \in 0..11 :
            /\ BitField(data, 12 * i, 12) \in 0..4095
            /\ out[i + 1] = FieldMicrovolts(data, i)
        /\ out = unpack_eeg(<<0, 0>> \o SubSeq(data, 3, 20))
        /\ out = unpack_eeg_samples(<<0, 0>> \o SubSeq(data, 3, 20))

\* header ff ff, body 5a a5 ff ...: samples 0x5aa and 0x5ff
C13_Witness ==
    /\ fn = "unpack_eeg_samples" /\ Len(data) = 20
    /\ data[1] = 255 /\ data[3] = 90 /\ data[4] = 165 /\ data[5] = 255
    /\ out[1] = Ratio((1450 - 2048) * 1000, 2048)
    /\ out[2] = Ratio((1535 - 2048) * 1000, 2048)

\* sample i lies inside a payload of L bytes
EegInside(i, L) == 2 + (3 * i) \div 2 + 1 <= L - 1

\* C14: for a payload of any length L, unpack_eeg returns at most 12 values:
\* exactly the leading samples whose two bytes lie inside the payload, with
\* their values; the decode of every prefix of the payload is a prefix of the
\* decode; fewer than 3 bytes give the empty list.
C14_EegTruncated ==
    fn = "unpack_eeg" =>
        LET L == Len(data) IN
        /\ Len(out) <= 12
        /\ Len(out) = Cardinality({i \in 0..11 : EegInside(i, L)})
        /\ \A i \in 0..11 : EegInside(i, L) =>
            /\ i + 1 <= Len(out)
            /\ out[i + 1] = FieldMicrovolts(data, i)
        /\ \A k \in 0..L :
            LET pre == unpack_eeg(SubSeq(data, 1, k)) IN
            /\ Len(pre) <= Len(out)
            /\ pre = SubSeq(out, 1, Len(pre))
        /\ (L < 3 => out = <<>>)

\* 7 bytes: samples 0, 1 and 2 are inside, sample 3 is cut
C14_Witness ==
    /\ fn = "unpack_eeg" /\ Len(data) = 7 /\ Len(out) = 3
    /\ data[3] = 165 /\ data[4] = 90

\* C15: both IMU decoders return at most 3 triples; triple i is returned
\* exactly when 2 + 6i + 6 <= L; its components are the signed 16-bit
\* big-endian integers at offsets 2+6i, 4+6i and 6+6i; a 20-byte payload
\* gives 3 triples.
C15_ImuTriples ==
    fn \in {"unpack_imu", "unpack_imu_samples"} =>
        LET L == Len(data) IN
        /\ Len(out) <= 3
        /\ Len(out) = Cardinality({i \in 0..2 : 2 + 6 * i + 6 <= L})
        /\ \A i \in 0..2 : 2 + 6 * i + 6 <= L =>
            /\ i + 1 <= Len(out)
            /\ Len(out[i + 1]) = 3
            /\ \A c \in 0..2 :
                LET v == out[i + 1][c + 1]
                    u == 256 * At(data, 2 + 6 * i + 2 * c)
                            + At(data, 2 + 6 * i + 2 * c + 1)
                IN /\ v \in (-32768)..32767
                   /\ (v - u) % 65536 = 0
        /\ (L = 20 => Len(out) = 3)

\* 19 bytes: two triples, the first starting with the negative a5 ff
C15_Witness ==
    /\ fn = "unpack_imu" /\ Len(data) = 19 /\ Len(out) = 2
    /\ data[3] = 165 /\ data[4] = 255 /\ out[1][1] = -23041

\* two rationals are the same number
RatioEq(a, b) == a.num * b.den = b.num * a.den

\* C16 as claimed: the battery field is taken from every telemetry payload of
\* at least 4 bytes, and battery is unchanged for a shorter one.
C16_BatteryFromFourBytes ==
    fn = "telem" =>
        IF Len(data) >= 4
        THEN RatioEq(battery, Ratio(256 * At(data, 2) + At(data, 3), 100))
        ELSE battery = prevBattery

\* C16: the battery field (unsigned 16-bit big-endian at offset 2, divided by
\* 100) is taken from every telemetry payload of at least 6 bytes; battery is
\* unchanged for every shorter payload, those of 4 and 5 bytes included.
C16_BatteryFromSixBytes ==
    fn = "telem" =>
        IF Len(data) >= 6
        THEN RatioEq(battery, Ratio(256 * At(data, 2) + At(data, 3), 100))
        ELSE battery = prevBattery

\* a 6-byte payload with the field 5a a5 = 23205: battery 232.05
C16_Witness ==
    /\ fn = "telem" /\ Len(data) = 6 /\ data[3] = 90 /\ data[4] = 165
    /\ battery = Ratio(23205, 100) /\ prevBattery = Ratio(0, 1)

\* C17: the three cmd definitions build the same frame for a command string
\* s: len(s) + 2 bytes, the first len(s) + 1, then the character codes of s,
\* the last 0x0A.
C17_CmdFrame ==
    fn \in {"cmd", "cmd_stream", "cmd_raw_connect"} =>
        /\ Len(out) = Len(cmdArg) + 2
        /\ out[1] = Len(cmdArg) + 1
        /\ \A i \in 1..Len(cmdArg) : out[i + 1] = Ord[cmdArg[i]]
        /\ out[Len(out)] = 10
        /\ out = cmd(cmdArg)
        /\ out = cmd_stream(cmdArg)
        /\ out = cmd_raw_connect(cmdArg)
        /\ (cmdArg = <<"v", "6">> => out = <<3, 118, 54, 10>>)
        /\ (cmdArg = <<"h">> => out = <<2, 104, 10>>)

\* "p21" framed by raw_connect.py
C17_Witness ==
    /\ fn = "cmd_raw_connect" /\ cmdArg = <<"p", "2", "1">>
    /\ out = <<4, 112, 50, 49, 10>>

\* the blinks in the frames delivered so far: a script holds at most one, in
\* the same sample of AF7 and AF8
BlinksFed ==
    IF \E f \in 1..fpos : \E j \in DOMAIN script[f].samples :
            /\ script[f].ch \in {"AF7", "AF8"}
            /\ script[f].samples[j] >= BLINK_THRESHOLD
    THEN 1 ELSE 0

\* C18: blink_count never exceeds the number of blinks in the frontal data
\* received: a peak is counted once, however many analysis cycles run while
\* it is inside the analysed window.
C18_PeakCountedOnce ==
    \A r \in Runs : blinkCount[r] <= BlinksFed

C20_SameOutputsForEverySchedule ==
    (/\ fpos = Len(script)
     /\ \A r \in Runs : spCounter[r] >= 5 /\ cyc[r].at = Len(script)) =>
        /\ eeg[1] = eeg[2]
        /\ bandBars[1] = bandBars[2]
        /\ blinkCount[1] = blinkCount[2]
        /\ asymOut[1] = asymOut[2]

\* ---------------------------------------------------- analysis functions
\* ln(a) - ln(b) = ln(c) - ln(d) as real numbers
RealEq(v, w) == v.hi * w.lo = v.lo * w.hi

\* ln(a) - ln(b) = 0
IsZero(v) == v.hi = v.lo

\* -(ln(a) - ln(b))
Neg(v) == [hi |-> v.lo, lo |-> v.hi]

\* what the claim says of one asymmetry value, given the two alpha powers
\* and the value computed from the swapped inputs
LogRatioOf(v, pl, pr, swapped) ==
    /\ RealEq(v, [hi |-> pr + 1, lo |-> pl + 1])
    /\ (pr = pl) => IsZero(v)
    /\ RealEq(swapped, Neg(v))

\* C21: alpha_asymmetry returns one value per window both inputs have; each
\* value is ln(right + epsilon) - ln(left + epsilon) of the two alpha powers
\* of that window, is 0 when the two powers are equal, and is negated when
\* left and right are swapped; with left = right every value is 0.  The same
\* holds for the asymmetry value of a live cycle.
C21_AsymmetryIsLogRatio ==
    /\ afn = "alpha_asymmetry" =>
        LET pl == compute_band_powers(left_data).alpha
            pr == compute_band_powers(right_data).alpha
            swapped == alpha_asymmetry(right_data, left_data).asymmetry
        IN /\ Len(aout.asymmetry) = Min(Len(pl), Len(pr))
           /\ Len(aout.times) = Len(aout.asymmetry)
           /\ \A k \in DOMAIN aout.asymmetry :
                LogRatioOf(aout.asymmetry[k], pl[k], pr[k], swapped[k])
           /\ (left_data = right_data) =>
                \A k \in DOMAIN aout.asymmetry : IsZero(aout.asymmetry[k])
    /\ afn = "live_asymmetry" =>
        LET la == AlphaPower(LastK(left_data, 2 * Sec))
            ra == AlphaPower(LastK(right_data, 2 * Sec))
        IN /\ LogRatioOf(aout, la, ra, LiveAsymmetry(right_data, left_data))
           /\ (left_data = right_data) => IsZero(aout)

\* alpha_asymmetry was given the same constant recording twice, long enough
\* for two windows of alpha power 0
C21_Witness ==
    /\ afn = "alpha_asymmetry"
    /\ left_data = right_data
    /\ Len(aout.asymmetry) >= 2
    /\ \A k \in DOMAIN aout.asymmetry :
        compute_band_powers(left_data).alpha[k] = 0

\* C22 (as claimed): the session mean of analyze.main and the value of a
\* live cycle are classified by the same rule: right-dominant above +0.1,
\* left-dominant below -0.1, balanced otherwise.
C22_OneRuleEverywhere ==
    afn \in {"main_dominance", "live_dominance"} =>
        aout = IF mean_asym > 10 THEN "right"
               ELSE IF mean_asym < -10 THEN "left"
               ELSE "balanced"

\* C27 (as claimed): compute_band_powers on n samples gives one result per
\* window start s in {0, step, 2 step, ...} with s + window <= n, so
\* floor((n - window) / step) + 1 results when n >= window and none below,
\* with timestamps (s + window / 2) / fs, strictly increasing.
C27_OneResultPerFullWindow ==
    afn = "compute_band_powers" =>
        LET n == Len(left_data)
            window == 2 * Sec
            count == IF n >= window THEN (n - window) \div Sec + 1 ELSE 0
        IN /\ Len(aout.times) = count
           /\ Len(aout.alpha) = count
           /\ \A k \in DOMAIN aout.times :
                /\ aout.times[k] = Ratio((k - 1) * Sec + Sec, Sec)
                /\ (k > 1) => aout.times[k - 1].num < aout.times[k].num

\* ------------------------------------------------ session: backoff, settle
\* C23 (as claimed): the wait after failed attempt k is min(2k, 10) seconds;
\* a wait is taken only between two attempts, so at most MAX_RETRIES - 1
\* waits in one for loop and none after the final failed attempt; no wait is
\* taken after the attempt that succeeded.
C23_BackoffOnlyBetweenAttempts ==
    /\ \A k \in DOMAIN backoffs :
        backoffs[k] = IF 2 * k <= 10 THEN 2 * k ELSE 10
    /\ Len(backoffs) <= 5 - 1
    /\ pc \in StreamPcs => Len(backoffs) = attempt - 1

\* the delays logged strictly between positions i and j
SleptBetween(o, i, j) ==
    SeqSum([k \in 1..(j - i - 1) |->
                IF o[i + k].op = "sleep" THEN o[i + k].ms ELSE 0])

\* C24 (as claimed): within one connection attempt, a connect that follows a
\* disconnect is separated from it by delays of at least 1 s in total.
C24_SettleBeforeReconnect ==
    \A i, j \in DOMAIN ops :
        (/\ i < j
         /\ ops[i].op = "disconnect"
         /\ ops[j].op = "connect"
         /\ \A k \in (i + 1)..(j - 1) :
                ops[k].op \notin {"connect", "disconnect"})
        => SleptBetween(ops, i, j) >= 1000

\* C28: once stop() was requested, _run eventually returns; and whenever
\* _run has returned, data.connected is False.
C28_StopTerminates ==
    /\ stopReq ~> (pc = "done")
    /\ [](pc = "done" => ~connected)

\* _run has returned after a stop() requested during a delay, in a run that
\* had started the stream
C28_Witness ==
    /\ pc = "done" /\ stopReq /\ stopIn = "delay"
    /\ status = "Disconnected" /\ ~connected
    /\ \E i \in DOMAIN ops : ops[i].op = "write" /\ ops[i].arg = "d"

\* ------------------------------------------- stream.py and raw_connect.py
\* the link operations of a log and the delays of at least one second, as
\* <<operation, argument>> pairs
RECURSIVE LinkTrace(_)
LinkTrace(o) ==
    IF o = <<>> THEN <<>>
    ELSE IF o[1].op = "sleep"
         THEN IF o[1].ms >= 1000
              THEN <<<<"settle", "">>>> \o LinkTrace(Tail(o))
              ELSE LinkTrace(Tail(o))
         ELSE <<<<o[1].op, o[1].arg>>>> \o LinkTrace(Tail(o))

WakeUp ==
    << <<"connect", "">>, <<"start_notify", "CONTROL">>, <<"write", "v6">>,
       <<"write", "s">>, <<"write", "h">>, <<"disconnect", "">>,
       <<"settle", "">>, <<"connect", "">>, <<"start_notify", "CONTROL">> >>

\* the connects logged before position i
ConnectsBefore(o, i) == Cardinality({j \in 1..(i - 1) : o[j].op = "connect"})

C26_WindowsTimeAligned ==
    \A r \in Runs :
        asymOut[r] # NoAsym =>
            LET left == asymOut[r][1].seg
                right == asymOut[r][2].seg
            IN \A i \in DOMAIN left : right[i] = 100 + left[i]

\* C30 (as claimed): a cycle that finds more than one second of jointly
\* valid AF7 and AF8 samples runs the blink step, whatever TP9 holds.
C30_BlinkStepNeedsFrontalOnly ==
    \A r \in Runs : cyc[r].nf > Sec => cyc[r].ranBlink

\* ------------------------------------------------- RingBuffer: the result
\* C29 (as claimed): the array get_ordered returned is a snapshot: at every
\* later time, whatever was extended since, the caller reads in it what it
\* held at the return.
C29_ResultIsSnapshot ==
    Seen = heldSnap
====
